---- MODULE Spec2Model ----
(***************************************************************************)
(* Model of correct-bandpass.py: the bandpass correction pipeline          *)
(* (apply_corrections and its helpers find_nearest, smooth_bandpass,       *)
(* extrap1d), the per-dataset loop correct_and_plot and the __main__       *)
(* driver.                                                                 *)
(*                                                                         *)
(* Numbers.  Frequencies are integers in units of 0.5 GHz, so that the     *)
(* thresholds 61.5 and 38.0 of the source are the integers 123 and 76.     *)
(* Log-domain values are IEEE-like extended rationals: a normalised        *)
(* fraction n/d, +inf, -inf or NaN.  Amplitudes are e^(n/d), 0, a negative *)
(* number, +inf or NaN.  Rounding is not modelled; division by zero,       *)
(* inf - inf, log of a non-positive number and the range of exp are.       *)
(* Arrays are sequences; At gives Python's indexing (0-based, negative     *)
(* indices from the end, IndexError outside).                              *)
(***************************************************************************)
EXTENDS Integers, Sequences, FiniteSets

\* ------------------------------------------------------------------ bounds
\* Longest input profile.
MaxLen == 27
\* Largest curvature and largest tilt of the input log-profiles.
MaxCurv == 1
MaxTilt == 1
\* The filter outcomes considered: neighbour weights 0..MaxW.
MaxW == 1

\* ---------------------------------------------------------------- state
\* One call of apply_corrections.
VARIABLES
    pc,             \* where apply_corrections is: "idle" (not called),
                    \* "start", "extended", "smoothed", "cut",
                    \* "extrapolated", "returned", "raised"
    dataset,        \* its arguments
    radiometer,
    bpx,
    bp,
    bpx_full,       \* its locals
    bpx_corrected,
    bp_corrected,
    f,              \* the interp1d object: its x and y
    f_out,          \* f(bpx_full) of line 121, the log-domain values
    ret             \* the tuple returned

pipe_vars == <<pc, dataset, radiometer, bpx, bp, bpx_full, bpx_corrected,
               bp_corrected, f, f_out, ret>>

\* One call of find_nearest on an array and a value of its own.
VARIABLES
    fn_pc,          \* "idle", "call", "returned"
    fn_array,
    fn_value,
    fn_idx          \* the index returned

fn_vars == <<fn_pc, fn_array, fn_value, fn_idx>>

\* One run of the script, or one call of correct_and_plot.
VARIABLES
    d_pc,           \* "idle", "main", "plotprofiles", "cp_enter", "cp_loop",
                    \* "cp_finish", "exit", "raised"
    d_entry,        \* "main": the __main__ block; "call": one call of
                    \* correct_and_plot from outside
    d_calls,        \* the calls still to make
    d_call,         \* the call running
    d_seed,
    d_files,        \* the tables on disk
    d_i,            \* correct_and_plot's locals
    d_fig,          \* whether fig is bound
    d_mean_bp,      \* <<>> while mean_bp is unbound
    d_last,         \* bpx_full, bp_corrected of the last loop round
    d_log           \* the calls made so far, in order

d_vars == <<d_pc, d_entry, d_calls, d_call, d_seed, d_files, d_i, d_fig,
            d_mean_bp, d_last, d_log>>

vars == <<pipe_vars, fn_vars, d_vars>>

\* ------------------------------------------------- extended rationals
Abs(i) == IF i < 0 THEN -i ELSE i

RECURSIVE Gcd(_, _)
Gcd(a, b) == IF b = 0 THEN a ELSE Gcd(b, a % b)

Num(n, d) ==
    LET s == IF d < 0 THEN -1 ELSE 1
        g == Gcd(Abs(n), Abs(d))
    IN  [k |-> "num", n |-> (s * n) \div g, d |-> (s * d) \div g]

FromInt(i) == [k |-> "num", n |-> i, d |-> 1]
PInf == [k |-> "pinf", n |-> 0, d |-> 0]
NInf == [k |-> "ninf", n |-> 0, d |-> 0]
NaN == [k |-> "nan", n |-> 0, d |-> 0]

IsNum(a) == a.k = "num"
\* -1, 0 or 1; NaN has no sign and is never asked for one.
Sgn(a) ==
    CASE a.k = "pinf" -> 1
      [] a.k = "ninf" -> -1
      [] OTHER -> IF a.n > 0 THEN 1 ELSE IF a.n < 0 THEN -1 ELSE 0

FNeg(a) ==
    CASE a.k = "num" -> Num(-a.n, a.d)
      [] a.k = "pinf" -> NInf
      [] a.k = "ninf" -> PInf
      [] OTHER -> NaN

FAdd(a, b) ==
    CASE a.k = "nan" \/ b.k = "nan" -> NaN
      [] IsNum(a) /\ IsNum(b) -> Num(a.n * b.d + b.n * a.d, a.d * b.d)
      [] IsNum(a) -> b
      [] IsNum(b) -> a
      [] OTHER -> IF a.k = b.k THEN a ELSE NaN

FSub(a, b) == FAdd(a, FNeg(b))

FMul(a, b) ==
    CASE a.k = "nan" \/ b.k = "nan" -> NaN
      [] IsNum(a) /\ IsNum(b) -> Num(a.n * b.n, a.d * b.d)
      [] OTHER -> IF Sgn(a) * Sgn(b) = 0 THEN NaN
                  ELSE IF Sgn(a) * Sgn(b) > 0 THEN PInf ELSE NInf

FDiv(a, b) ==
    CASE a.k = "nan" \/ b.k = "nan" -> NaN
      [] IsNum(a) /\ IsNum(b) ->
            IF b.n # 0 THEN Num(a.n * b.d, a.d * b.n)
            ELSE IF a.n = 0 THEN NaN
            ELSE IF a.n > 0 THEN PInf ELSE NInf
      [] IsNum(a) -> FromInt(0)
      [] IsNum(b) -> IF Sgn(a) * (IF Sgn(b) < 0 THEN -1 ELSE 1) > 0
                     THEN PInf ELSE NInf
      [] OTHER -> NaN

\* a < b on fractions.
NumLt(a, b) == a.n * b.d < b.n * a.d

\* ---------------------------------------------------------- amplitudes
AmpExp(n, d) == [k |-> "exp", n |-> n, d |-> d]
AmpZero == [k |-> "zero", n |-> 0, d |-> 0]
AmpNeg == [k |-> "neg", n |-> 0, d |-> 0]
AmpInf == [k |-> "inf", n |-> 0, d |-> 0]
AmpNaN == [k |-> "nan", n |-> 0, d |-> 0]

\* np.exp on float64: e^x underflows to 0.0 below about -745.13 and
\* overflows to inf above about 709.78.
ExpMin == -745
ExpMax == 709
np_exp(a) ==
    CASE a.k = "nan" -> AmpNaN
      [] a.k = "pinf" -> AmpInf
      [] a.k = "ninf" -> AmpZero
      [] OTHER -> IF NumLt(a, FromInt(ExpMin)) THEN AmpZero
                  ELSE IF NumLt(FromInt(ExpMax), a) THEN AmpInf
                  ELSE AmpExp(a.n, a.d)

\* np.log: -inf at 0 and NaN below 0, with a warning and no exception.
np_log(v) ==
    CASE v.k = "exp" -> Num(v.n, v.d)
      [] v.k = "zero" -> NInf
      [] v.k = "inf" -> PInf
      [] OTHER -> NaN

\* np.log and np.exp of an array.
log_all(v) == [i \in 1..Len(v) |-> np_log(v[i])]
exp_all(v) == [i \in 1..Len(v) |-> np_exp(v[i])]

\* v >= 0.0 and v < 0.0 as float64 compares them: both are False for NaN.
AmpGe0(v) == v.k \in {"exp", "zero", "inf"}
AmpLt0(v) == v.k = "neg"

\* ------------------------------------------------------- Python arrays
InRange(s, i) == IF i >= 0 THEN i < Len(s) ELSE -i <= Len(s)
At(s, i) == IF i >= 0 THEN s[i + 1] ELSE s[Len(s) + i + 1]
\* s[:-m] for m > 0, and s[m:] for m >= 0.
DropLast(s, m) == SubSeq(s, 1, IF Len(s) > m THEN Len(s) - m ELSE 0)
DropFirst(s, m) == SubSeq(s, m + 1, Len(s))
Reverse(s) == [i \in 1..Len(s) |-> s[Len(s) + 1 - i]]

\* ------------------------------------------------------------ LABELDICT
LABELDICT ==
    [ d \in {"30", "44", "70"} |->
        CASE d = "30" -> <<"27M", "27S", "28M", "28S">>
          [] d = "44" -> <<"24M", "24S", "25M", "25S", "26M", "26S">>
          [] OTHER -> <<"18M", "18S", "19M", "19S", "20M", "20S",
                        "21M", "21S", "22M", "22S", "23M", "23S">> ]

Datasets == DOMAIN LABELDICT
Radiometers(d) == {LABELDICT[d][i] : i \in 1..Len(LABELDICT[d])}

\* --------------------------------------------------------- find_nearest
\* (np.abs(array - value)).argmin(): a scan that keeps the best index so
\* far and replaces it on a strictly smaller distance only.  The result is
\* a 0-based index; the array is not empty (argmin raises on an empty one).
RECURSIVE argmin_from(_, _, _)
argmin_from(dist, i, best) ==
    IF i >= Len(dist) THEN best
    ELSE argmin_from(dist, i + 1, IF At(dist, i) < At(dist, best) THEN i ELSE best)

\* find_nearest with ties going to the highest index.
find_nearest_last(array, value) ==
    CHOOSE j \in 0..(Len(array) - 1) :
        /\ \A m \in 0..(Len(array) - 1) :
              Abs(At(array, j) - value) <= Abs(At(array, m) - value)
        /\ \A m \in (j + 1)..(Len(array) - 1) :
              Abs(At(array, j) - value) < Abs(At(array, m) - value)

find_nearest(array, value) ==
    argmin_from([i \in 1..Len(array) |-> Abs(array[i] - value)], 1, 0)

\* The thresholds 61.5 GHz and 38.0 GHz, in units of 0.5 GHz.
Bump70 == 123
Bump44 == 76

\* ------------------------------------------------------ smooth_bandpass
\* sig.butter(3, 0.2): a filter of order 3, so len(a) = len(b) = 4, and
\* sig.filtfilt pads by padlen = 3 * max(len(a), len(b)) samples and
\* raises ValueError unless the input is longer than padlen.
ButterOrder == 3
padlen == 3 * (ButterOrder + 1)

AllFinite(x) == \A i \in 1..Len(x) : IsNum(x[i])

\* The output of sig.filtfilt(b, a, x) for an input longer than padlen.
\* The Butterworth coefficients are irrational, so the filter is modelled
\* by its outcomes: a zero-phase (symmetric) low-pass of x with the odd
\* extension filtfilt pads with, the neighbour weight w/(2*MaxW+2) being
\* the unknown (w = 0: nothing removed).  A NaN or an infinity anywhere in
\* x reaches every output sample through the recursion run forward and
\* backward.
filtfilt(x, w) ==
    LET n == Len(x)
        D == 2 * MaxW + 2
        two == FromInt(2)
        ext(i) == IF i = 0 THEN FSub(FMul(two, x[1]), x[2])
                  ELSE IF i = n + 1 THEN FSub(FMul(two, x[n]), x[n - 1])
                  ELSE x[i]
    IN  IF ~AllFinite(x) THEN [i \in 1..n |-> NaN]
        ELSE [i \in 1..n |->
                FDiv(FAdd(FMul(FromInt(w), FAdd(ext(i - 1), ext(i + 1))),
                          FMul(FromInt(D - 2 * w), x[i])),
                     FromInt(D))]

\* np.exp(sig.filtfilt(b, a, np.log(bp))), where filtfilt raises ValueError
\* on an input of at most padlen samples.
smooth_raises(amps) == Len(amps) <= padlen
smooth_bandpass(amps, w) == exp_all(filtfilt(log_all(amps), w))

\* ------------------------------------------------------------- extrap1d
IndexError == [k |-> "IndexError", n |-> 0, d |-> 0]

\* interp1d(x, y), linear: raises ValueError on an empty x.  Called at x
\* inside [xs[0], xs[-1]] only: the value at a knot is its y, between two
\* knots slope * (x - x_lo) + y_lo.
interp_call(itp, x) ==
    LET xs == itp.x
        ys == itp.y
        lo == CHOOSE i \in 1..Len(xs) :
                 /\ xs[i] <= x
                 /\ \A j \in 1..Len(xs) : xs[j] <= x => j <= i
    IN  IF xs[lo] = x THEN ys[lo]
        ELSE FAdd(FMul(FDiv(FSub(ys[lo + 1], ys[lo]),
                            FromInt(xs[lo + 1] - xs[lo])),
                       FromInt(x - xs[lo])),
                  ys[lo])

\* idx = 2 if label in ["18M", "18S"] else 5
slope_idx(label) == IF label \in {"18M", "18S"} THEN 2 ELSE 5

\* pointwise with both slopes divided by xs[0] - xs[0] and xs[-1] - xs[-1].
pointwise_zero_span(itp, label, x) ==
    LET xs == itp.x
        ys == itp.y
    IN  IF ~InRange(xs, 0) THEN IndexError
        ELSE IF x < At(xs, 0) THEN
            IF ~(InRange(ys, 10) /\ InRange(xs, 5)) THEN IndexError
            ELSE FAdd(At(ys, 0),
                      FDiv(FMul(FromInt(x - At(xs, 0)),
                                FSub(At(ys, 10), At(ys, 0))),
                           FromInt(At(xs, 0) - At(xs, 0))))
        ELSE IF x > At(xs, -1) THEN
            IF ~(InRange(ys, -10) /\ InRange(xs, -slope_idx(label))) THEN IndexError
            ELSE FAdd(At(ys, -1),
                      FDiv(FMul(FromInt(x - At(xs, -1)),
                                FSub(At(ys, -1), At(ys, -10))),
                           FromInt(At(xs, -1) - At(xs, -1))))
        ELSE interp_call(itp, x)

\* pointwise(x) of extrap1d: the value returned, or IndexError when one of
\* the indexed samples does not exist.
pointwise(itp, label, x) ==
    LET xs == itp.x
        ys == itp.y
        idx == slope_idx(label)
    IN  IF ~InRange(xs, 0) THEN IndexError
        ELSE IF x < At(xs, 0) THEN
            IF ~(InRange(ys, 10) /\ InRange(xs, 5)) THEN IndexError
            ELSE FAdd(At(ys, 0),
                      FDiv(FMul(FromInt(x - At(xs, 0)),
                                FSub(At(ys, 10), At(ys, 0))),
                           FromInt(At(xs, 5) - At(xs, 0))))
        ELSE IF x > At(xs, -1) THEN
            IF ~(InRange(ys, -10) /\ InRange(xs, -idx)) THEN IndexError
            ELSE FAdd(At(ys, -1),
                      FDiv(FMul(FromInt(x - At(xs, -1)),
                                FSub(At(ys, -1), At(ys, -10))),
                           FromInt(At(xs, -1) - At(xs, -idx))))
        ELSE interp_call(itp, x)

\* ufunclike(xs): pointwise mapped over the array; the first IndexError
\* ends the map.
ufunclike(itp, label, xs) == [i \in 1..Len(xs) |-> pointwise(itp, label, xs[i])]
Raises(vals) == \E i \in 1..Len(vals) : vals[i] = IndexError

\* ------------------------------------------------------------ np.arange
\* np.arange(start, stop, step) for an integer start and step # 0 and the
\* stop stopN/stopD (stopD > 0): ceil((stop - start) / step) values
\* start + i * step, none when that is not positive.
CeilDiv(p, q) == -((-p) \div q)
arange(start, stopN, stopD, step) ==
    LET p == (stopN - start * stopD) * (IF step < 0 THEN -1 ELSE 1)
        q == stopD * Abs(step)
        len == IF CeilDiv(p, q) > 0 THEN CeilDiv(p, q) ELSE 0
    IN  [i \in 1..len |-> start + (i - 1) * step]

\* extend_domain with 10% in place of 20%.
extend_domain_tenth(freqs) ==
    LET dx == At(freqs, 1) - At(freqs, 0)
    IN  Reverse(DropFirst(arange(At(freqs, 0), At(freqs, 0) * 9, 10, -dx), 1))
          \o freqs
          \o DropFirst(arange(At(freqs, -1), At(freqs, -1) * 11, 10, dx), 1)

\* Lines 85-92: dx, and the frequency array with "20% more" on each side.
extend_domain(freqs) ==
    LET dx == At(freqs, 1) - At(freqs, 0)
    IN  Reverse(DropFirst(arange(At(freqs, 0), At(freqs, 0) * 4, 5, -dx), 1))
          \o freqs
          \o DropFirst(arange(At(freqs, -1), At(freqs, -1) * 6, 5, dx), 1)

\* tail_trim without the special case of 19M and 23M.
tail_trim_same(label) == 10

\* Line 97: the trailing samples dropped in dataset 70.
tail_trim(label) == IF label \in {"19M", "23M"} THEN 15 ELSE 10

\* Line 124: bp_corrected[bp_corrected < 0.0] = 0.0
clamp(v) == [i \in 1..Len(v) |-> IF AmpLt0(v[i]) THEN AmpZero ELSE v[i]]

\* =================================================== apply_corrections

NoInterp == [x |-> <<>>, y |-> <<>>]

\* The inputs: a uniform frequency grid of n samples from a start with a
\* step, and amplitudes e^(t*j - c*(j - n/2)^2) at sample j (a tilted
\* parabola in the log domain), all positive or with one sample that is
\* zero or negative.
Starts == {73, 120, 124}
Steps == {2, 25}
BadKinds == {"zero", "neg"}
\* The radiometers the inputs are drawn from: the four that lines 64 and 97
\* name and one other of each dataset (the code treats the rest alike).
Probed(d) == Radiometers(d) \cap {"27M", "24M", "18M", "18S", "19M", "23M", "20M"}

Grid(a, dx, n) == [i \in 1..n |-> a + (i - 1) * dx]
Profile(c, t, n, bad) ==
    [i \in 1..n |->
        IF bad # "none" /\ i = (n \div 2) + 1
        THEN (IF bad = "zero" THEN AmpZero ELSE AmpNeg)
        ELSE AmpExp(t * (i - 1) - c * ((i - 1) - (n \div 2)) * ((i - 1) - (n \div 2)), 1)]

PipeIdle ==
    /\ pc = "idle"
    /\ dataset = "" /\ radiometer = ""
    /\ bpx = <<>> /\ bp = <<>> /\ bpx_full = <<>>
    /\ bpx_corrected = <<>> /\ bp_corrected = <<>>
    /\ f = NoInterp /\ f_out = <<>> /\ ret = <<>>

PipeInit ==
    /\ pc = "start"
    /\ dataset \in Datasets
    /\ radiometer \in Probed(dataset)
    /\ \E n \in padlen..MaxLen :
          /\ \E a \in Starts, dx \in Steps : bpx = Grid(a, dx, n)
          /\ \/ \E c \in 0..MaxCurv, t \in 0..MaxTilt : bp = Profile(c, t, n, "none")
             \/ \E bad \in BadKinds : bp = Profile(0, 0, n, bad)
    /\ bpx_full = <<>>
    /\ bpx_corrected = <<>> /\ bp_corrected = <<>>
    /\ f = NoInterp /\ f_out = <<>> /\ ret = <<>>

\* Lines 85-92.
ExtendDomain ==
    /\ pc = "start"
    /\ bpx_full' = extend_domain(bpx)
    /\ pc' = "extended"
    /\ UNCHANGED <<dataset, radiometer, bpx, bp, bpx_corrected, bp_corrected,
                   f, f_out, ret>>
    /\ UNCHANGED <<fn_vars, d_vars>>

\* Lines 95-102, Correction 1.  The filter's outcome is one of those of
\* filtfilt; smooth_bandpass raises on a profile of at most padlen samples.
FilterStandingWaves ==
    /\ pc = "extended"
    /\ \E w \in 0..MaxW :
        LET sm == smooth_bandpass(bp, w)
        IN  IF smooth_raises(bp)
            THEN /\ pc' = "raised"
                 /\ UNCHANGED <<bpx_corrected, bp_corrected>>
            ELSE /\ pc' = "smoothed"
                 /\ IF dataset = "70"
                    THEN /\ bpx_corrected' = DropLast(bpx, tail_trim(radiometer))
                         /\ bp_corrected' = DropLast(sm, tail_trim(radiometer))
                    ELSE /\ bp_corrected' = sm
                         /\ bpx_corrected' = bpx
    /\ UNCHANGED <<dataset, radiometer, bpx, bp, bpx_full, f, f_out, ret>>
    /\ UNCHANGED <<fn_vars, d_vars>>

\* Lines 106 and 111: the index the low-frequency bump ends at, 0 where
\* nothing is removed (dataset 30).
cut_index(ds, freqs) ==
    IF ds = "70" THEN find_nearest(freqs, Bump70)
    ELSE IF ds = "44" THEN find_nearest(freqs, Bump44)
    ELSE 0

\* RemoveBump with the frequencies cut from the untrimmed bpx.
RemoveBump_untrimmed ==
    /\ pc = "smoothed"
    /\ bp_corrected' = DropFirst(bp_corrected, cut_index(dataset, bpx))
    /\ bpx_corrected' = DropFirst(bpx, cut_index(dataset, bpx))
    /\ pc' = "cut"
    /\ UNCHANGED <<dataset, radiometer, bpx, bp, bpx_full, f, f_out, ret>>
    /\ UNCHANGED <<fn_vars, d_vars>>

\* Lines 105-113, Correction 2: the index is found in the untrimmed bpx and
\* both trimmed arrays are cut at it.
RemoveBump ==
    /\ pc = "smoothed"
    /\ bp_corrected' = DropFirst(bp_corrected, cut_index(dataset, bpx))
    /\ bpx_corrected' = DropFirst(bpx_corrected, cut_index(dataset, bpx))
    /\ pc' = "cut"
    /\ UNCHANGED <<dataset, radiometer, bpx, bp, bpx_full, f, f_out, ret>>
    /\ UNCHANGED <<fn_vars, d_vars>>

\* Lines 116-121, Correction 3.  interp1d raises on an empty profile, and
\* the map of pointwise over bpx_full raises when one evaluation does.
Extrapolate ==
    /\ pc = "cut"
    /\ IF Len(bpx_corrected) = 0
       THEN /\ pc' = "raised"
            /\ UNCHANGED <<f, f_out, bp_corrected>>
       ELSE LET g == [x |-> bpx_corrected, y |-> log_all(bp_corrected)]
                vals == ufunclike(g, radiometer, bpx_full)
            IN  /\ f' = g
                /\ IF Raises(vals)
                   THEN /\ pc' = "raised"
                        /\ UNCHANGED <<f_out, bp_corrected>>
                   ELSE /\ f_out' = vals
                        /\ bp_corrected' = exp_all(vals)
                        /\ pc' = "extrapolated"
    /\ UNCHANGED <<dataset, radiometer, bpx, bp, bpx_full, bpx_corrected, ret>>
    /\ UNCHANGED <<fn_vars, d_vars>>

\* Lines 124-126.
ClampAndReturn ==
    /\ pc = "extrapolated"
    /\ bp_corrected' = clamp(bp_corrected)
    /\ ret' = <<bpx_full, clamp(bp_corrected)>>
    /\ pc' = "returned"
    /\ UNCHANGED <<dataset, radiometer, bpx, bp, bpx_full, bpx_corrected,
                   f, f_out>>
    /\ UNCHANGED <<fn_vars, d_vars>>

PipeNext ==
    \/ ExtendDomain
    \/ FilterStandingWaves
    \/ RemoveBump
    \/ Extrapolate
    \/ ClampAndReturn

\* ======================================================== find_nearest

\* Longest array and largest number of the find_nearest calls.
MaxArr == 3
MaxVal == 3

NearestIdle == fn_pc = "idle" /\ fn_array = <<>> /\ fn_value = 0 /\ fn_idx = 0

NearestInit ==
    /\ fn_pc = "call"
    /\ \E n \in 1..MaxArr : fn_array \in [1..n -> 0..MaxVal]
    /\ fn_value \in 0..MaxVal
    /\ fn_idx = 0

FindNearest ==
    /\ fn_pc = "call"
    /\ fn_idx' = find_nearest(fn_array, fn_value)
    /\ fn_pc' = "returned"
    /\ UNCHANGED <<fn_array, fn_value>>
    /\ UNCHANGED <<pipe_vars, d_vars>>

\* ============================================ __main__, correct_and_plot
\* The tables on disk are keyed by what their name ends with: the table
\* bp_corrected_<r>.dat by the radiometer r, bp_corrected_<dataset>.dat by
\* the dataset.  A table is its two columns; NoTable: no such file.
AllRadiometers == UNION {Radiometers(d) : d \in Datasets}
TableKeys == AllRadiometers \cup Datasets
NoTable == [freq |-> <<>>, amp |-> <<>>]

\* The calibration file's content is not modelled: what apply_corrections
\* returns for the i-th radiometer of a dataset is drawn from the arrays
\* below, one choice (seed) per run.
MaxSeed == 2
ApplyResult(seed, d, i) ==
    [freq |-> <<1, 2>>,
     amp |-> <<FromInt((seed + i) % 3), FromInt((seed * i + Len(LABELDICT[d])) % 3)>>]

PlotCall(d) ==
    [fn |-> "plotprofiles", dataset |-> d, correct |-> FALSE,
     plotfig |-> FALSE, savefig |-> TRUE]
CorrectCall(d, c, p, sv) ==
    [fn |-> "correct_and_plot", dataset |-> d, correct |-> c,
     plotfig |-> p, savefig |-> sv]
NoCall == [fn |-> "", dataset |-> "", correct |-> FALSE, plotfig |-> FALSE,
           savefig |-> FALSE]

\* Lines 373-381.
MainCalls ==
    << PlotCall("30"), PlotCall("44"), PlotCall("70"),
       CorrectCall("30", FALSE, TRUE, TRUE),
       CorrectCall("44", FALSE, TRUE, TRUE),
       CorrectCall("70", FALSE, TRUE, TRUE) >>

Event(op, arg) == [op |-> op, arg |-> arg]

\* The tables an earlier run with correct=True left.
TablesOf(seed) ==
    [key \in TableKeys |->
        IF key \in Datasets THEN NoTable
        ELSE LET d == CHOOSE e \in Datasets : key \in Radiometers(e)
                 i == CHOOSE j \in 1..Len(LABELDICT[d]) : LABELDICT[d][j] = key
             IN  ApplyResult(seed, d, i - 1)]

DriverIdle ==
    /\ d_pc = "idle" /\ d_entry = "" /\ d_calls = <<>> /\ d_call = NoCall
    /\ d_seed = 0 /\ d_files = [key \in TableKeys |-> NoTable]
    /\ d_i = 0 /\ d_fig = FALSE /\ d_mean_bp = <<>> /\ d_last = NoTable
    /\ d_log = <<>>

DriverInit ==
    /\ d_pc = "main"
    /\ \/ d_entry = "main" /\ d_calls = MainCalls
       \/ /\ d_entry = "call"
          /\ \E d \in Datasets, c \in BOOLEAN, p \in BOOLEAN, sv \in BOOLEAN :
                d_calls = <<CorrectCall(d, c, p, sv)>>
    /\ d_call = NoCall
    /\ d_seed \in 0..MaxSeed
    /\ d_files \in {[key \in TableKeys |-> NoTable], TablesOf(d_seed)}
    /\ d_i = 0 /\ d_fig = FALSE /\ d_mean_bp = <<>> /\ d_last = NoTable
    /\ d_log = <<>>

\* The next statement of the script: a call, or its end.
MainCall ==
    /\ d_pc = "main" /\ d_calls # <<>>
    /\ d_call' = Head(d_calls)
    /\ d_calls' = Tail(d_calls)
    /\ d_pc' = IF Head(d_calls).fn = "plotprofiles" THEN "plotprofiles" ELSE "cp_enter"
    /\ UNCHANGED <<d_entry, d_seed, d_files, d_i, d_fig, d_mean_bp, d_last, d_log>>
    /\ UNCHANGED <<pipe_vars, fn_vars>>

MainExit ==
    /\ d_pc = "main" /\ d_calls = <<>>
    /\ d_pc' = "exit"
    /\ UNCHANGED <<d_entry, d_calls, d_call, d_seed, d_files, d_i, d_fig,
                   d_mean_bp, d_last, d_log>>
    /\ UNCHANGED <<pipe_vars, fn_vars>>

\* Lines 128-254: reads the calibration file and draws; no table is
\* written or read.
plotprofiles ==
    /\ d_pc = "plotprofiles"
    /\ d_log' = Append(d_log, Event("plotprofiles", d_call.dataset))
    /\ d_pc' = "main"
    /\ UNCHANGED <<d_entry, d_calls, d_call, d_seed, d_files, d_i, d_fig,
                   d_mean_bp, d_last>>
    /\ UNCHANGED <<pipe_vars, fn_vars>>

\* Lines 264-285: fig and ax are bound under plotfig only; mean_bp is not
\* bound yet.
correct_and_plot_enter ==
    /\ d_pc = "cp_enter"
    /\ d_fig' = d_call.plotfig
    /\ d_mean_bp' = <<>>
    /\ d_i' = 0
    /\ d_last' = NoTable
    /\ d_log' = Append(d_log, Event("correct_and_plot", d_call.dataset))
    /\ d_pc' = "cp_loop"
    /\ UNCHANGED <<d_entry, d_calls, d_call, d_seed, d_files>>
    /\ UNCHANGED <<pipe_vars, fn_vars>>

VecAdd(u, v) == [j \in 1..Len(u) |-> FAdd(u[j], v[j])]

\* Lines 287-330, one round of the loop: the radiometer's corrected arrays
\* are computed and saved (correct) or loaded (np.loadtxt raises when the
\* table is not there), and summed into mean_bp under plotfig only.
correct_and_plot_loop ==
    /\ d_pc = "cp_loop" /\ d_i < Len(LABELDICT[d_call.dataset])
    /\ LET r == LABELDICT[d_call.dataset][d_i + 1]
           got == IF d_call.correct
                  THEN ApplyResult(d_seed, d_call.dataset, d_i)
                  ELSE d_files[r]
       IN  IF ~d_call.correct /\ d_files[r] = NoTable
           THEN /\ d_pc' = "raised"
                /\ d_log' = Append(d_log, Event("loadtxt", r))
                /\ UNCHANGED <<d_files, d_i, d_mean_bp, d_last>>
           ELSE /\ d_files' = IF d_call.correct
                              THEN [d_files EXCEPT ![r] = got]
                              ELSE d_files
                /\ d_log' = IF d_call.correct
                            THEN d_log \o <<Event("apply_corrections", r),
                                            Event("savetxt", r)>>
                            ELSE Append(d_log, Event("loadtxt", r))
                /\ d_last' = got
                /\ d_mean_bp' = IF ~d_call.plotfig THEN d_mean_bp
                                ELSE IF d_i = 0 THEN got.amp
                                ELSE VecAdd(d_mean_bp, got.amp)
                /\ d_i' = d_i + 1
                /\ d_pc' = "cp_loop"
    /\ UNCHANGED <<d_entry, d_calls, d_call, d_seed, d_fig>>
    /\ UNCHANGED <<pipe_vars, fn_vars>>

\* mean_bp / len(LABELDICT[dataset])
mean_of(sum, n) == [j \in 1..Len(sum) |-> FDiv(sum[j], FromInt(n))]

\* Lines 344-348: under correct, the per-dataset table; NameError when
\* mean_bp is not bound.
correct_and_plot_save ==
    /\ d_pc = "cp_loop" /\ d_i = Len(LABELDICT[d_call.dataset])
    /\ IF ~d_call.correct
       THEN /\ d_pc' = "cp_finish"
            /\ UNCHANGED <<d_files, d_log>>
       ELSE IF d_mean_bp = <<>>
       THEN /\ d_pc' = "raised"
            /\ UNCHANGED <<d_files, d_log>>
       ELSE /\ d_files' = [d_files EXCEPT ![d_call.dataset] =
                             [freq |-> d_last.freq,
                              amp |-> mean_of(d_mean_bp, Len(LABELDICT[d_call.dataset]))]]
            /\ d_log' = Append(d_log, Event("savetxt", d_call.dataset))
            /\ d_pc' = "cp_finish"
    /\ UNCHANGED <<d_entry, d_calls, d_call, d_seed, d_i, d_fig, d_mean_bp, d_last>>
    /\ UNCHANGED <<pipe_vars, fn_vars>>

\* Lines 350-369: fig.add_subplot raises NameError when fig is not bound;
\* then the figure is saved or shown.
correct_and_plot_finish ==
    /\ d_pc = "cp_finish"
    /\ IF ~d_fig
       THEN /\ d_pc' = "raised"
            /\ UNCHANGED d_log
       ELSE /\ d_log' = Append(d_log, Event(IF d_call.savefig THEN "savefig" ELSE "show",
                                            d_call.dataset))
            /\ d_pc' = "main"
    /\ UNCHANGED <<d_entry, d_calls, d_call, d_seed, d_files, d_i, d_fig,
                   d_mean_bp, d_last>>
    /\ UNCHANGED <<pipe_vars, fn_vars>>

DriverNext ==
    \/ MainCall
    \/ MainExit
    \/ plotprofiles
    \/ correct_and_plot_enter
    \/ correct_and_plot_loop
    \/ correct_and_plot_save
    \/ correct_and_plot_finish

\* ====================================================== specifications

\* One call of apply_corrections.
Init == PipeInit /\ NearestIdle /\ DriverIdle
Next == PipeNext
Spec == Init /\ [][Next]_vars

\* One call of find_nearest.
InitNearest == NearestInit /\ PipeIdle /\ DriverIdle
NextNearest == FindNearest
SpecNearest == InitNearest /\ [][NextNearest]_vars

\* One run of the script, or one call of correct_and_plot.
InitDriver == DriverInit /\ PipeIdle /\ NearestIdle
NextDriver == DriverNext
SpecDriver == InitDriver /\ [][NextDriver]_vars

\* ===================================================== properties: apply_corrections
\* s[lo:hi] for 0 <= lo, the slice with original indices in [lo, hi).
PySlice(s, lo, hi) == [i \in 1..(IF hi > lo THEN hi - lo ELSE 0) |-> s[lo + i]]
PositiveInput == \A i \in 1..Len(bp) : bp[i].k = "exp"
Evaluated == pc \in {"extrapolated", "returned"}
Below(i) == bpx_full[i] < At(f.x, 0)
Above(i) == bpx_full[i] > At(f.x, -1)
\* y0 + (x - x0) * (y1 - y0) / (x1 - x0): the line through (x0, y0) and
\* (x1, y1), at x.
LineAt(x0, y0, x1, y1, x) ==
    FAdd(y0, FDiv(FMul(FromInt(x - x0), FSub(y1, y0)), FromInt(x1 - x0)))

\* C1 as stated: whenever apply_corrections returns, every returned
\* amplitude is >= 0 and clamping the returned array again changes nothing.
C1_ReturnedNonNegative ==
    pc = "returned" =>
        /\ \A i \in 1..Len(ret[2]) : AmpGe0(ret[2][i])
        /\ clamp(ret[2]) = ret[2]

\* C1 amended: for an input profile whose amplitudes are all positive,
\* whenever apply_corrections returns, every returned amplitude is >= 0 and
\* clamping the returned array again changes nothing.
C1_PositiveInputNonNegative ==
    (pc = "returned" /\ PositiveInput) =>
        /\ \A i \in 1..Len(ret[2]) : AmpGe0(ret[2][i])
        /\ clamp(ret[2]) = ret[2]

C1_Witness ==
    /\ pc = "returned" /\ PositiveInput
    /\ Len(ret[2]) > Len(bp)
    /\ \E i \in 1..Len(ret[2]) : ret[2][i] = AmpZero

\* C2: every evaluation frequency strictly below xs[0] gets the value of
\* the line through the 1st and the 6th sample, (xs[0], ys[0]) and
\* (xs[5], ys[5]).
C2_LowSideLine ==
    Evaluated =>
        \A i \in 1..Len(bpx_full) :
            Below(i) =>
                f_out[i] = LineAt(At(f.x, 0), At(f.y, 0), At(f.x, 5), At(f.y, 5),
                                  bpx_full[i])

\* C3: every evaluation frequency strictly above xs[-1] gets the value of
\* the line through the last sample and the 11th-from-end sample, or the
\* 6th-from-end sample for 18M and 18S.
C3_HighSideLine ==
    Evaluated =>
        LET m == IF radiometer \in {"18M", "18S"} THEN -6 ELSE -11
        IN  \A i \in 1..Len(bpx_full) :
                Above(i) =>
                    f_out[i] = LineAt(At(f.x, -1), At(f.y, -1), At(f.x, m), At(f.y, m),
                                      bpx_full[i])

\* bpx is a contiguous part of bpx_full, with lower frequencies only before
\* it and higher ones only after it.
MiddleKept ==
    \E L \in 0..(Len(bpx_full) - Len(bpx)) :
        /\ SubSeq(bpx_full, L + 1, L + Len(bpx)) = bpx
        /\ \A i \in 1..L : bpx_full[i] < At(bpx, 0)
        /\ \A i \in (L + Len(bpx) + 1)..Len(bpx_full) : bpx_full[i] > At(bpx, -1)

\* C4 as stated: bpx_full starts within one step of a - 0.2*(b - a), ends
\* within one step of b + 0.2*(b - a), and keeps bpx as its middle part
\* (a = bpx[0], b = bpx[-1], dx = bpx[1] - bpx[0]; all times 5).
C4_SpanExtension ==
    pc # "start" =>
        LET a == At(bpx, 0)
            b == At(bpx, -1)
            dx == At(bpx, 1) - At(bpx, 0)
        IN  /\ Abs(5 * At(bpx_full, 0) - (5 * a - (b - a))) <= 5 * dx
            /\ Abs(5 * At(bpx_full, -1) - (5 * b + (b - a))) <= 5 * dx
            /\ MiddleKept

\* C4 amended: for positive frequencies, bpx_full starts within one step
\* of 0.8*a, ends within one step of 1.2*b, and keeps bpx as its middle
\* part.
C4_FactorExtension ==
    pc # "start" =>
        LET a == At(bpx, 0)
            b == At(bpx, -1)
            dx == At(bpx, 1) - At(bpx, 0)
        IN  /\ Abs(5 * At(bpx_full, 0) - 4 * a) <= 5 * dx
            /\ Abs(5 * At(bpx_full, -1) - 6 * b) <= 5 * dx
            /\ MiddleKept

C4_Witness ==
    /\ pc = "returned"
    /\ At(ret[1], 0) < At(bpx, 0)
    /\ At(ret[1], -1) > At(bpx, -1)

\* C5: the profile handed to the extrapolation step is the smoothed
\* profile's samples with original indices in [k, n - t): t = 15 for 19M and
\* 23M and 10 otherwise in dataset 70, t = 0 in the others; k the index
\* nearest 61.5 GHz in dataset 70, nearest 38.0 GHz in 44, and 0 in 30.
C5_HandedProfile ==
    pc = "cut" =>
        LET n == Len(bpx)
            t == IF dataset = "70"
                 THEN (IF radiometer \in {"19M", "23M"} THEN 15 ELSE 10)
                 ELSE 0
            k == IF dataset = "70" THEN find_nearest(bpx, 123)
                 ELSE IF dataset = "44" THEN find_nearest(bpx, 76)
                 ELSE 0
        IN  /\ bpx_corrected = PySlice(bpx, k, n - t)
            /\ \E w \in 0..MaxW : bp_corrected = PySlice(smooth_bandpass(bp, w), k, n - t)

C5_Witness ==
    /\ pc = "cut"
    /\ dataset = "70" /\ radiometer \in {"19M", "23M"}
    /\ Len(bpx_corrected) >= 11
    /\ At(bpx_corrected, 0) > At(bpx, 0)

\* C9: a profile of fewer than 11 samples makes every evaluation outside
\* its domain raise, and apply_corrections return nothing.
C9_ShortProfileRaises ==
    /\ (pc = "cut" /\ Len(bpx_corrected) \in 1..10) =>
          LET g == [x |-> bpx_corrected, y |-> log_all(bp_corrected)]
          IN  \A i \in 1..Len(bpx_full) :
                (bpx_full[i] < At(g.x, 0) \/ bpx_full[i] > At(g.x, -1)) =>
                    pointwise(g, radiometer, bpx_full[i]) = IndexError
    /\ ~(Evaluated /\ Len(f.x) < 11 /\ \E i \in 1..Len(bpx_full) : Below(i) \/ Above(i))

\* C10: after each trimming step the two arrays have one length and pair
\* the frequency and the smoothed amplitude of one original index, and the
\* two returned arrays have one length.
C10_Aligned ==
    /\ pc \in {"smoothed", "cut"} =>
          /\ Len(bpx_corrected) = Len(bp_corrected)
          /\ \E w \in 0..MaxW :
                LET sm == smooth_bandpass(bp, w)
                IN  \A i \in 1..Len(bpx_corrected) :
                        \E j \in 1..Len(bpx) :
                            /\ bpx_corrected[i] = bpx[j]
                            /\ bp_corrected[i] = sm[j]
    /\ pc = "returned" => Len(ret[1]) = Len(ret[2])

C10_Witness ==
    /\ pc = "returned"
    /\ dataset \in {"44", "70"}
    /\ Len(f.x) < Len(bpx) - 10
    /\ At(f.x, 0) > At(bpx, 0)

\* ================================================= properties: find_nearest
\* C6: find_nearest returns an index whose distance to the value is the
\* smallest of all, and the lowest such index.
C6_NearestLowest ==
    fn_pc = "returned" =>
        /\ fn_idx \in 0..(Len(fn_array) - 1)
        /\ \A j \in 0..(Len(fn_array) - 1) :
              Abs(At(fn_array, fn_idx) - fn_value) <= Abs(At(fn_array, j) - fn_value)
        /\ \A j \in 0..(fn_idx - 1) :
              Abs(At(fn_array, fn_idx) - fn_value) < Abs(At(fn_array, j) - fn_value)

C6_Witness ==
    /\ fn_pc = "returned"
    /\ \E j \in (fn_idx + 1)..(Len(fn_array) - 1) :
          /\ At(fn_array, j) # At(fn_array, fn_idx)
          /\ Abs(At(fn_array, j) - fn_value) = Abs(At(fn_array, fn_idx) - fn_value)

\* ======================================================= properties: the script
\* The j-th amplitude of the first i radiometers of dataset d, summed.
RECURSIVE SumAmp(_, _, _, _)
SumAmp(seed, d, j, i) ==
    IF i = 0 THEN FromInt(0)
    ELSE FAdd(SumAmp(seed, d, j, i - 1), ApplyResult(seed, d, i - 1).amp[j])

Count(op, arg) == Cardinality({m \in 1..Len(d_log) : d_log[m] = Event(op, arg)})

\* C7: when a run of the __main__ block ends, plotprofiles was invoked for
\* each dataset and, later, apply_corrections for every radiometer of it.
C7_MainCorrects ==
    (d_entry = "main" /\ d_pc = "exit") =>
        \A d \in Datasets :
            \A r \in Radiometers(d) :
                \E m1 \in 1..Len(d_log), m2 \in 1..Len(d_log) :
                    /\ m1 < m2
                    /\ d_log[m1] = Event("plotprofiles", d)
                    /\ d_log[m2] = Event("apply_corrections", r)

\* C8: when a call correct_and_plot(dataset, correct=True, ...) ends, it
\* has written one table per radiometer, holding that radiometer's
\* corrected arrays, and after them one table of the dataset, whose
\* amplitudes are the sum of the radiometers' amplitudes divided by their
\* number.
C8_TablesWritten ==
    (d_entry = "call" /\ d_call.correct /\ d_pc \in {"exit", "raised"}) =>
        LET d == d_call.dataset
            n == Len(LABELDICT[d])
        IN  /\ \A i \in 1..n :
                  /\ Count("savetxt", LABELDICT[d][i]) = 1
                  /\ d_files[LABELDICT[d][i]] = ApplyResult(d_seed, d, i - 1)
            /\ Count("savetxt", d) = 1
            /\ \A m1 \in 1..Len(d_log), m2 \in 1..Len(d_log) :
                  (d_log[m1] = Event("savetxt", d) /\ d_log[m2].op = "savetxt") => m2 <= m1
            /\ d_files[d].freq = ApplyResult(d_seed, d, n - 1).freq
            /\ \A j \in 1..Len(d_files[d].amp) :
                  d_files[d].amp[j] = FDiv(SumAmp(d_seed, d, j, n), FromInt(n))

====
